---- MODULE Spec2Model ----
(***************************************************************************)
(* Model of drum.DecodeFile (decoder.go): the decoder of the SPLICE drum   *)
(* machine format.  One decode call is a sequential program over one byte  *)
(* stream; pc is the position of the call in DecodeFile / readTrack.       *)
(*                                                                         *)
(* The file is a regular file opened with os.Open: a Read delivers         *)
(* min(len(buf), bytes left) bytes, so a read comes up short only at the   *)
(* end of the file and every later read delivers nothing.  The bytes of    *)
(* the file are revealed by the reads: stream holds the bytes consumed so  *)
(* far (the cursor is Len(stream)), atEOF says that a read has hit the end *)
(* of the file.  Bytes are 0..255.                                         *)
(*                                                                         *)
(* An int64 is kept as its 8 base-256 digits, least significant first, in  *)
(* two's complement, so that Go's wrapping arithmetic is exact.            *)
(***************************************************************************)
EXTENDS Integers, Sequences, FiniteSets, TLC

VARIABLES pc, stream, atEOF, size, p, tracks, track, nameLength, retP, retErr, iters

vars == <<pc, stream, atEOF, size, p, tracks, track, nameLength, retP, retErr, iters>>

(* ------------------------------ bounds -------------------------------- *)

\* The longest file the model reads: header, version, tempo, two records
\* with the longest name, and the start of a third.
MaxLen == 98

\* The longest track name a record of the model declares.
MaxNameLen == 2

(* ----------------------- constants of the format ---------------------- *)

HeaderLen == 6
SizeLen == 8
VersionLen == 32
TempoLen == 4
IDLen == 4
StepCount == 16

\* "SPLICE"
SPLICE == <<83, 80, 76, 73, 67, 69>>

Zeros(n) == [i \in 1..n |-> 0]

(* ------------------------------ errors -------------------------------- *)

NoErr == [kind |-> "nil", got |-> <<>>]
EOF == [kind |-> "EOF", got |-> <<>>]
ErrUnexpectedEOF == [kind |-> "unexpected EOF", got |-> <<>>]
\* fmt.Errorf("Invalid file header, expected SPLICE, got %s", header)
InvalidHeader(header) == [kind |-> "Invalid file header", got |-> header]

IsIOError(e) == e.kind \in {"EOF", "unexpected EOF"}
IsFormatError(e) == e.kind = "Invalid file header"

(* --------------------------- reading bytes ---------------------------- *)

\* What the file can deliver to a read of n bytes whose full content would
\* be one of blocks: all n bytes, or fewer when the file ends first.
Deliveries(blocks, n) ==
    IF atEOF THEN {<<>>}
    ELSE {SubSeq(b, 1, k) : b \in blocks,
                            k \in {j \in 0..n : Len(stream) + j <= MaxLen}}

\* A fresh zeroed buffer of n bytes (make([]byte, n), var buf int8) after a
\* read delivered bs into it.
ZeroFill(bs, n) == bs \o Zeros(n - Len(bs))

\* os.File.Read: io.EOF only when nothing was read into a non-empty buffer.
FileReadErr(bs, n) == IF Len(bs) = 0 /\ n > 0 THEN EOF ELSE NoErr

\* binary.Read (io.ReadFull): io.EOF when nothing was read,
\* io.ErrUnexpectedEOF when fewer than n bytes were.
BinaryReadErr(bs, n) ==
    IF Len(bs) = n THEN NoErr
    ELSE IF Len(bs) = 0 THEN EOF ELSE ErrUnexpectedEOF

(* ----------------------------- conversions ---------------------------- *)

\* binary.BigEndian, int64: the digits of the word, least significant first.
BigEndianInt64(bs) == [i \in 1..SizeLen |-> bs[SizeLen + 1 - i]]

\* w - k in int64 (wrapping), for 0 <= k < 256.
Sub64(w, k) ==
    [i \in 1..SizeLen |->
        IF i = 1 THEN (w[1] - k) % 256
        ELSE IF w[1] < k /\ \A j \in 2..(i-1) : w[j] = 0
             THEN (w[i] - 1) % 256
             ELSE w[i]]

IsNonNegative(w) == w[SizeLen] < 128

\* size > 0 on an int64.
IsPositive(w) == w[SizeLen] < 128 /\ w # Zeros(SizeLen)

\* int8 of a byte.
Int8(b) == IF b >= 128 THEN b - 256 ELSE b

RECURSIVE Magnitude(_, _)
\* The number whose base-256 digits, least significant first, are ds[1..n].
Magnitude(ds, n) == IF n = 0 THEN 0 ELSE ds[1] + 256 * Magnitude(Tail(ds), n - 1)

\* binary.LittleEndian, int32, then int(id).
LittleEndianInt32(bs) ==
    IF bs[IDLen] >= 128
    THEN -Magnitude([i \in 1..IDLen |-> 255 - bs[i]], IDLen) - 1
    ELSE Magnitude(bs, IDLen)

\* binary.LittleEndian, float32: the IEEE-754 bit pattern, most significant
\* byte first.
LittleEndianFloat32(bs) == [i \in 1..TempoLen |-> bs[TempoLen + 1 - i]]

RECURSIVE TrimLeftZero(_)
TrimLeftZero(s) ==
    IF s # <<>> /\ Head(s) = 0 THEN TrimLeftZero(Tail(s)) ELSE s

RECURSIVE TrimRightZero(_)
TrimRightZero(s) ==
    IF s # <<>> /\ s[Len(s)] = 0 THEN TrimRightZero(SubSeq(s, 1, Len(s) - 1)) ELSE s

\* bytes.Trim(buf, "\x00"): the cutset is stripped from both ends.
Trim(buf) == TrimRightZero(TrimLeftZero(buf))

StepActiveUnsigned(b) == b > 0

\* steps[i] = (buf > 0), buf an int8.
StepActive(b) == Int8(b) > 0

(* ------------------------------- inputs ------------------------------- *)

HeaderBlocks == {SPLICE, <<83, 80, 76, 73, 67, 88>>, <<0, 80, 76, 73, 67, 69>>}

\* Payload sizes as they lie on disk: 0, 36, 37, 57, 58, 79, 80, 256, -1,
\* -2^63, -2^63 + 35, -2^63 + 36.
SizeBlocks ==
    {[i \in 1..SizeLen |-> IF i = SizeLen THEN v ELSE 0] : v \in {0, 36, 37, 57, 58, 79, 80}}
    \cup {<<0, 0, 0, 0, 0, 0, 1, 0>>,
          [i \in 1..SizeLen |-> 255],
          <<128, 0, 0, 0, 0, 0, 0, 0>>,
          <<128, 0, 0, 0, 0, 0, 0, 35>>,
          <<128, 0, 0, 0, 0, 0, 0, 36>>}

\* "DRUM-MACHINE"
DrumMachine == <<68, 82, 85, 77, 45, 77, 65, 67, 72, 73, 78, 69>>

VersionBlocks ==
    {DrumMachine \o Zeros(20),
     <<0, 0>> \o DrumMachine \o Zeros(18),
     <<48, 0, 56>> \o Zeros(29),
     Zeros(32),
     [i \in 1..VersionLen |-> 48 + (i % 10)]}

\* 120.0
TempoBlocks == {<<0, 0, 240, 66>>}

\* 1 and -2
IDBlocks == {<<1, 0, 0, 0>>, <<254, 255, 255, 255>>}

NameLengthBlocks == {<<l>> : l \in (0..MaxNameLen) \cup {128, 255}}

\* "kick..."
NameBlocks(n) == {[i \in 1..n |-> <<107, 105, 99, 107>>[((i - 1) % 4) + 1]]}

StepBlocks ==
    {<<1, 0, 0, 0, 1, 0, 0, 0, 1, 0, 0, 0, 1, 0, 0, 0>>,
     <<0, 1, 127, 128, 255, 2, 129, 0, 254, 126, 0, 1, 128, 127, 255, 0>>}

(* ------------------------------- state -------------------------------- *)

\* p := &Pattern{}
ZeroPattern == [Version |-> <<>>, Tempo |-> Zeros(TempoLen), Tracks |-> <<>>]
\* track := new(Track)
ZeroTrack == [ID |-> 0, Name |-> <<>>, Steps |-> [i \in 1..StepCount |-> FALSE]]

Init ==
    /\ pc = "readHeader"
    /\ stream = <<>>
    /\ atEOF = FALSE
    /\ size = Zeros(SizeLen)
    /\ p = ZeroPattern
    /\ tracks = <<>>
    /\ track = ZeroTrack
    /\ nameLength = 0
    /\ retP = <<>>
    /\ retErr = NoErr
    /\ iters = 0

\* return nil, err
Fail(e) ==
    /\ pc' = "done"
    /\ retP' = <<>>
    /\ retErr' = e

\* The file gives bs to a read of n bytes.
Consume(bs, n) ==
    /\ stream' = stream \o bs
    /\ atEOF' = (atEOF \/ Len(bs) < n)

(* ------------------------------ actions ------------------------------- *)

\* readHeader's string: "" when the read reported an error, else the whole
\* 6-byte buffer (zero-filled past what was read).
HeaderString(bs) ==
    IF FileReadErr(bs, HeaderLen) # NoErr THEN <<>> ELSE ZeroFill(bs, HeaderLen)

HeaderOKFirstBytes(header) == Len(header) = HeaderLen /\ SubSeq(header, 1, 5) = SubSeq(SPLICE, 1, 5)

\* header != "SPLICE" is the only test; readHeader's err is never looked at.
HeaderOK(header) == header = SPLICE

\* header, err := readHeader(f); if header != "SPLICE" { return nil, ... }
DecodeHeader ==
    /\ pc = "readHeader"
    /\ \E bs \in Deliveries(HeaderBlocks, HeaderLen) :
          /\ Consume(bs, HeaderLen)
          /\ IF HeaderOK(HeaderString(bs))
             THEN /\ pc' = "readContentSize"
                  /\ UNCHANGED <<retP, retErr>>
             ELSE Fail(InvalidHeader(HeaderString(bs)))
    /\ UNCHANGED <<size, p, tracks, track, nameLength, iters>>

\* size, err := readContentSize(f)
DecodeContentSize ==
    /\ pc = "readContentSize"
    /\ \E bs \in Deliveries(SizeBlocks, SizeLen) :
          /\ Consume(bs, SizeLen)
          /\ IF BinaryReadErr(bs, SizeLen) # NoErr
             THEN /\ Fail(BinaryReadErr(bs, SizeLen))
                  /\ UNCHANGED size
             ELSE /\ size' = BigEndianInt64(bs)
                  /\ pc' = "readVersion"
                  /\ UNCHANGED <<retP, retErr>>
    /\ UNCHANGED <<p, tracks, track, nameLength, iters>>

\* version, err := readVersion(f); p.Version = version; size -= 32
DecodeVersion ==
    /\ pc = "readVersion"
    /\ \E bs \in Deliveries(VersionBlocks, VersionLen) :
          /\ Consume(bs, VersionLen)
          /\ IF FileReadErr(bs, VersionLen) # NoErr
             THEN /\ Fail(FileReadErr(bs, VersionLen))
                  /\ UNCHANGED <<p, size>>
             ELSE /\ p' = [p EXCEPT !.Version = Trim(ZeroFill(bs, VersionLen))]
                  /\ size' = Sub64(size, VersionLen)
                  /\ pc' = "readTempo"
                  /\ UNCHANGED <<retP, retErr>>
    /\ UNCHANGED <<tracks, track, nameLength, iters>>

\* tempo, err := readTempo(f); p.Tempo = tempo; size -= 4
DecodeTempo ==
    /\ pc = "readTempo"
    /\ \E bs \in Deliveries(TempoBlocks, TempoLen) :
          /\ Consume(bs, TempoLen)
          /\ IF BinaryReadErr(bs, TempoLen) # NoErr
             THEN /\ Fail(BinaryReadErr(bs, TempoLen))
                  /\ UNCHANGED <<p, size>>
             ELSE /\ p' = [p EXCEPT !.Tempo = LittleEndianFloat32(bs)]
                  /\ size' = Sub64(size, TempoLen)
                  /\ pc' = "loop"
                  /\ UNCHANGED <<retP, retErr>>
    /\ UNCHANGED <<tracks, track, nameLength, iters>>

\* for size > 0 { track, err := readTrack(f, &size) ...: the test, and the
\* entry into readTrack (track := new(Track)).
LoopEnter ==
    /\ pc = "loop"
    /\ IsPositive(size)
    /\ pc' = "readID"
    /\ track' = ZeroTrack
    /\ iters' = iters + 1
    /\ UNCHANGED <<stream, atEOF, size, p, tracks, nameLength, retP, retErr>>

\* The loop ends: p.Tracks = tracks; return p, nil
LoopExit ==
    /\ pc = "loop"
    /\ ~IsPositive(size)
    /\ p' = [p EXCEPT !.Tracks = tracks]
    /\ retP' = <<p'>>
    /\ retErr' = NoErr
    /\ pc' = "done"
    /\ UNCHANGED <<stream, atEOF, size, tracks, track, nameLength, iters>>

\* binary.Read(file, binary.LittleEndian, &id); track.ID = int(id); *size -= 4
ReadID ==
    /\ pc = "readID"
    /\ \E bs \in Deliveries(IDBlocks, IDLen) :
          /\ Consume(bs, IDLen)
          /\ IF BinaryReadErr(bs, IDLen) # NoErr
             THEN /\ Fail(BinaryReadErr(bs, IDLen))
                  /\ UNCHANGED <<track, size>>
             ELSE /\ track' = [track EXCEPT !.ID = LittleEndianInt32(bs)]
                  /\ size' = Sub64(size, IDLen)
                  /\ pc' = "readNameLength"
                  /\ UNCHANGED <<retP, retErr>>
    /\ UNCHANGED <<p, tracks, nameLength, iters>>

\* binary.Read(file, binary.LittleEndian, &nameLength); *size--
ReadNameLength ==
    /\ pc = "readNameLength"
    /\ \E bs \in Deliveries(NameLengthBlocks, 1) :
          /\ Consume(bs, 1)
          /\ IF BinaryReadErr(bs, 1) # NoErr
             THEN /\ Fail(BinaryReadErr(bs, 1))
                  /\ UNCHANGED <<nameLength, size>>
             ELSE /\ nameLength' = Int8(bs[1])
                  /\ size' = Sub64(size, 1)
                  /\ pc' = "readName"
                  /\ UNCHANGED <<retP, retErr>>
    /\ UNCHANGED <<p, tracks, track, iters>>

\* buf := make([]byte, nameLength) with a negative length: the run-time
\* panics (makeslice: len out of range); DecodeFile returns nothing.
ReadNamePanic ==
    /\ pc = "readName"
    /\ nameLength < 0
    /\ pc' = "panic"
    /\ UNCHANGED <<stream, atEOF, size, p, tracks, track, nameLength, retP, retErr, iters>>

SizeAfterNameUncounted(w, n) == w

\* *size -= int64(nameLength)
SizeAfterName(w, n) == Sub64(w, n)

\* buf := make([]byte, nameLength); file.Read(buf) (its results dropped);
\* track.Name = string(buf); *size -= int64(nameLength)
ReadName ==
    /\ pc = "readName"
    /\ nameLength >= 0
    /\ \E bs \in Deliveries(NameBlocks(nameLength), nameLength) :
          /\ Consume(bs, nameLength)
          /\ track' = [track EXCEPT !.Name = ZeroFill(bs, nameLength)]
    /\ size' = SizeAfterName(size, nameLength)
    /\ pc' = "readSteps"
    /\ UNCHANGED <<p, tracks, nameLength, retP, retErr, iters>>

StepsErrIgnored(bs) == NoErr

\* The 16 one-byte binary.Read calls: the first that finds the file at its
\* end returns io.EOF.
StepsErr(bs) == IF Len(bs) < StepCount THEN EOF ELSE NoErr

\* for i := 0; i < 16; i++ { ... steps[i] = (buf > 0) }; *size -= 16;
\* track.Steps = steps; return track, nil; tracks = append(tracks, track)
ReadSteps ==
    /\ pc = "readSteps"
    /\ \E bs \in Deliveries(StepBlocks, StepCount) :
          /\ Consume(bs, StepCount)
          /\ IF StepsErr(bs) # NoErr
             THEN /\ Fail(StepsErr(bs))
                  /\ UNCHANGED <<track, tracks, size>>
             ELSE /\ track' = [track EXCEPT !.Steps = [i \in 1..StepCount |->
                                              StepActive(ZeroFill(bs, StepCount)[i])]]
                  /\ tracks' = Append(tracks, track')
                  /\ size' = Sub64(size, StepCount)
                  /\ pc' = "loop"
                  /\ UNCHANGED <<retP, retErr>>
    /\ UNCHANGED <<p, nameLength, iters>>

Next ==
    \/ DecodeHeader
    \/ DecodeContentSize
    \/ DecodeVersion
    \/ DecodeTempo
    \/ LoopEnter
    \/ LoopExit
    \/ ReadID
    \/ ReadNameLength
    \/ ReadNamePanic
    \/ ReadName
    \/ ReadSteps

Spec == Init /\ [][Next]_vars

TypeOK ==
    /\ pc \in {"readHeader", "readContentSize", "readVersion", "readTempo", "loop",
               "readID", "readNameLength", "readName", "readSteps", "done", "panic"}
    /\ Len(stream) <= MaxLen
    /\ nameLength \in -128..127

(* ------------------- what the claims speak about ---------------------- *)

Done == pc = "done"
Success == pc = "done" /\ retErr = NoErr /\ retP # <<>>

\* The 6 signature bytes were all read.
HeaderRead == pc # "readHeader" /\ Len(stream) >= HeaderLen
HeaderBytes == SubSeq(stream, 1, HeaderLen)
ValidSignature == HeaderRead /\ HeaderBytes = SPLICE

\* The declared payload size (bytes 6..13 of the file), once read.
PayloadRead == ValidSignature /\ Len(stream) >= HeaderLen + SizeLen
Payload == BigEndianInt64(SubSeq(stream, HeaderLen + 1, HeaderLen + SizeLen))

\* The offset of the first track record.
TracksOffset == HeaderLen + SizeLen + VersionLen + TempoLen
\* The bytes of a record besides its name: ID, name length, steps.
FixedRecordLen == IDLen + 1 + StepCount

\* An int64 whose value fits three bytes.
Small(w) == (\A i \in 4..SizeLen : w[i] = 0) \/ (\A i \in 4..SizeLen : w[i] = 255)
IsNegative(w) == w[SizeLen] >= 128
\* The value of a Small int64.
Int64Value(w) ==
    IF IsNegative(w)
    THEN -Magnitude([i \in 1..SizeLen |-> 255 - w[i]], SizeLen) - 1
    ELSE Magnitude(w, SizeLen)

RECURSIVE RecordsFrom(_, _)
\* The complete track records lying in s from offset off on, by the layout
\* of the format: each its offset and its name length.
RecordsFrom(s, off) ==
    IF /\ off + IDLen + 1 <= Len(s)
       /\ s[off + IDLen + 1] < 128
       /\ off + FixedRecordLen + s[off + IDLen + 1] <= Len(s)
    THEN <<[off |-> off, len |-> s[off + IDLen + 1]]>>
         \o RecordsFrom(s, off + FixedRecordLen + s[off + IDLen + 1])
    ELSE <<>>

DiskRecords == RecordsFrom(stream, TracksOffset)

\* The bytes the first n records take.
RecordBytes(recs, n) ==
    IF n = 0 THEN 0 ELSE recs[n].off + FixedRecordLen + recs[n].len - TracksOffset

\* The track a record on disk stands for.
TrackOnDisk(r) ==
    [ID |-> LittleEndianInt32(SubSeq(stream, r.off + 1, r.off + IDLen)),
     Name |-> SubSeq(stream, r.off + IDLen + 2, r.off + IDLen + 1 + r.len),
     Steps |-> [i \in 1..StepCount |-> stream[r.off + IDLen + 1 + r.len + i] \in 1..127]]

(* ------------------------------- claims ------------------------------- *)

\* C1: when the 6 signature bytes were all read and differ from "SPLICE",
\* decode has failed with the invalid-header error carrying those 6 bytes,
\* returns no Pattern, and nothing past the 6 bytes has been consumed.
C1_SignatureGate ==
    (HeaderRead /\ HeaderBytes # SPLICE) =>
        /\ Done
        /\ IsFormatError(retErr)
        /\ retErr.got = HeaderBytes
        /\ retP = <<>>
        /\ Len(stream) = HeaderLen

C1_Witness ==
    /\ Done
    /\ stream = <<83, 80, 76, 73, 67, 88>>
    /\ IsFormatError(retErr)

\* C2: when the signature read came up short (fewer than 6 bytes, none
\* included), decode fails with an I/O error, not with the format error.
C2_ShortHeaderIsIOError ==
    (pc # "readHeader" /\ Len(stream) < HeaderLen) =>
        (Done /\ IsIOError(retErr) /\ retP = <<>>)

\* C3: the decoded version is the 32-byte block without its trailing run of
\* zero bytes; leading and interior zero bytes are kept.
C3_VersionTrailingOnly ==
    (ValidSignature /\ Len(stream) >= HeaderLen + SizeLen + VersionLen) =>
        p.Version = TrimRightZero(SubSeq(stream, HeaderLen + SizeLen + 1,
                                         HeaderLen + SizeLen + VersionLen))

\* C4: a decode call never ends abnormally; it ends returning either a
\* Pattern and no error or an error and no Pattern, a negative name length
\* being reported as a format error.
C4_PatternOrError ==
    /\ pc # "panic"
    /\ Done => \/ (retP # <<>> /\ retErr = NoErr)
               \/ (retP = <<>> /\ retErr # NoErr)
    /\ (Done /\ nameLength < 0) => IsFormatError(retErr)

\* C5: with a valid signature, once a read has found the file shorter than
\* it asked for, decode does not end abnormally and ends with an I/O error
\* and no Pattern.
C5_TruncatedIsIOError ==
    (ValidSignature /\ atEOF) =>
        /\ pc # "panic"
        /\ Done => (IsIOError(retErr) /\ retP = <<>>)

\* A track name cut short by the end of the file (zero-filled in the
\* buffer), and decode ended.
C5_Witness ==
    /\ Done
    /\ ValidSignature
    /\ atEOF
    /\ nameLength = 2
    /\ track.Name = <<107, 0>>
    /\ IsIOError(retErr)

\* The declared payload size is 36 or less.
DeclaredAtMost36 ==
    \/ IsNegative(Payload)
    \/ (\A i \in 2..SizeLen : Payload[i] = 0) /\ Payload[1] <= VersionLen + TempoLen

\* C6: with size, version and tempo read and a declared payload size of 36
\* or less, the loop body never runs, nothing after the tempo is consumed,
\* and decode returns a Pattern with no tracks and no error.
C6_EmptyTrackList ==
    (PayloadRead /\ Len(stream) >= TracksOffset /\ DeclaredAtMost36) =>
        /\ iters = 0
        /\ Len(stream) = TracksOffset
        /\ pc \in {"loop", "done"}
        /\ Done => (retErr = NoErr /\ retP # <<>> /\ retP[1].Tracks = <<>>)

\* C7: a successful decode returns exactly the records on disk that were
\* consumed, in their order, and their number n is the least with
\* sum (21 + L_i) >= payloadSize - 36; the loop body ran n times.
C7_TrackCountAndOrder ==
    (Success /\ Small(Payload)) =>
        LET recs == DiskRecords
            n == Len(retP[1].Tracks)
            c0 == Int64Value(Payload) - (VersionLen + TempoLen)
        IN /\ Len(recs) = n
           /\ iters = n
           /\ Len(stream) = TracksOffset + RecordBytes(recs, n)
           /\ \A i \in 1..n : retP[1].Tracks[i] = TrackOnDisk(recs[i])
           /\ RecordBytes(recs, n) >= c0
           /\ \A m \in 0..(n - 1) : RecordBytes(recs, m) < c0

\* Two records returned, the second running past the declared size.
C7_Witness ==
    /\ Success
    /\ Len(retP[1].Tracks) = 2
    /\ retP[1].Tracks[1].ID # retP[1].Tracks[2].ID
    /\ IsNegative(size)

\* C8 as stated: a successful decode with payload size >= 36 leaves the
\* counter at exactly 0 and the cursor at 14 + payloadSize.
C8_ExactAccounting ==
    (Success /\ Small(Payload) /\ Int64Value(Payload) >= VersionLen + TempoLen) =>
        /\ size = Zeros(SizeLen)
        /\ Len(stream) = HeaderLen + SizeLen + Int64Value(Payload)

\* C8 amended: a successful decode with payload size >= 36 leaves the
\* counter at payloadSize - 36 minus the bytes the track records took; the
\* counter is <= 0 and above -(21 + L) of the last record, so the cursor
\* ends at 14 + payloadSize - counter, at or past 14 + payloadSize.
C8_Accounting ==
    (Success /\ Small(Payload) /\ Int64Value(Payload) >= VersionLen + TempoLen) =>
        LET n == Len(tracks)
            counter == Int64Value(size)
        IN /\ Small(size)
           /\ counter <= 0
           /\ Len(stream) - TracksOffset
                 = Int64Value(Payload) - (VersionLen + TempoLen) - counter
           /\ Len(stream) = HeaderLen + SizeLen + Int64Value(Payload) - counter
           /\ n > 0 => counter > -(FixedRecordLen + Len(tracks[n].Name))

\* A successful decode whose last record ran past the declared size.
C8_Witness ==
    /\ Success
    /\ tracks # <<>>
    /\ Small(size)
    /\ Int64Value(size) < 0

\* C9: every decoded track has 16 steps, and step i is active exactly when
\* the i-th step byte of its record is one of 0x01..0x7F.
C9_StepThreshold ==
    /\ Len(tracks) <= Len(DiskRecords)
    /\ \A j \in 1..Len(tracks) :
          /\ DOMAIN tracks[j].Steps = 1..StepCount
          /\ \A i \in 1..StepCount :
                tracks[j].Steps[i]
                   = (stream[DiskRecords[j].off + IDLen + 1 + DiskRecords[j].len + i]
                         \in 1..127)
    /\ Success => retP[1].Tracks = tracks

\* A decoded track with step bytes 0x7F (active) and 0x80, 0xFF, 0x00
\* (inactive).
C9_Witness ==
    /\ Success
    /\ \E j \in 1..Len(tracks) :
          LET o == DiskRecords[j].off + IDLen + 1 + DiskRecords[j].len
          IN /\ stream[o + 3] = 127 /\ tracks[j].Steps[3]
             /\ stream[o + 4] = 128 /\ ~tracks[j].Steps[4]
             /\ stream[o + 5] = 255 /\ ~tracks[j].Steps[5]
             /\ stream[o + 1] = 0 /\ ~tracks[j].Steps[1]

\* C10: the loop body runs at most ceil((payloadSize - 36) / 21) times (not
\* at all when payloadSize <= 36).
C10_IterationBound ==
    PayloadRead =>
        IF DeclaredAtMost36 THEN iters = 0
        ELSE Small(Payload) =>
                iters * FixedRecordLen
                   <= Int64Value(Payload) - (VersionLen + TempoLen) + FixedRecordLen - 1

(* ------------------------------- lemmas ------------------------------- *)

\* size -= 32; size -= 4 wraps: the declared size is negative and the
\* counter the loop starts from is not.
Wraps == IsNegative(Payload) /\ ~IsNegative(Sub64(Sub64(Payload, VersionLen), TempoLen))

\* Apart from the declared sizes that wrap, a declared size of 36 or less
\* gives a Pattern with no tracks and reads nothing past the tempo.
EmptyTrackListUnlessWraps ==
    (PayloadRead /\ Len(stream) >= TracksOffset /\ DeclaredAtMost36 /\ ~Wraps) =>
        /\ iters = 0
        /\ Len(stream) = TracksOffset
        /\ pc \in {"loop", "done"}
        /\ Done => (retErr = NoErr /\ retP # <<>> /\ retP[1].Tracks = <<>>)

\* Apart from the declared sizes that wrap, the loop body runs at most
\* ceil((payloadSize - 36) / 21) times.
IterationBoundUnlessWraps ==
    (PayloadRead /\ ~Wraps) =>
        IF DeclaredAtMost36 THEN iters = 0
        ELSE Small(Payload) =>
                iters * FixedRecordLen
                   <= Int64Value(Payload) - (VersionLen + TempoLen) + FixedRecordLen - 1

====
